---- MODULE Spec2Model ----
(***************************************************************************)
(* Model of the connection orchestrator Server<P> of src/server/server.rs: *)
(* the session map (clients), the pending-handshake map (connecting), the  *)
(* event queue, the non-blocking UDP socket and the public operations      *)
(* process_payload_from, update, get_event, send_message_to_client,        *)
(* send_message_to_all_clients, get_messages_from_client and               *)
(* get_messages_from_channel.                                              *)
(*                                                                         *)
(* The authentication protocol P, HandleConnection and Connection are      *)
(* collaborators whose code is outside server.rs; they are modelled at the *)
(* interface server.rs consumes.                                           *)
(***************************************************************************)
EXTENDS Integers, Sequences, FiniteSets, TLC

\* ---------------------------------------------------------------- bounds
MaxReceived == 1     \* payloads handed to one session
MaxEmitted == 2      \* ClientConnected events per client id
MaxEvents == 2       \* events waiting in the queue
MaxBuffered == 2     \* messages buffered in the channels of all sessions

\* The client ids a connection request can carry, the peers' addresses and
\* the values of config.max_clients explored.
ClientId == {1, 2}
SocketAddr == {"a", "b", "c"}
MaxClients == {0, 1, 2}

\* The keys of channels_config, the messages the application and the peers
\* send, the Instant read by Server::new and the Instants passed to update.
ChannelId == {0, 1}
Message == {"m1", "m2"}
ConstructionTime == 0
Time == {1, 2}

\* ------------------------------------------------------------- payloads
\* The byte payloads are abstracted by what the protocol makes of them: a
\* connection request carrying a client id, a challenge response, or bytes
\* the protocol rejects.
Payload ==
  [kind : {"req"}, id : ClientId] \cup [kind : {"resp", "bad"}, id : {0}]

\* A payload of an established session that carries one message of one
\* channel.
DataPayload ==
  [kind : {"data"}, id : {0}, channel : ChannelId, message : Message]

VARIABLES
  max_clients,   \* config.max_clients
  current_time,  \* the server's current_time field
  clients,       \* HashMap<ClientId, Connection>
  connecting,    \* HashMap<ClientId, HandleConnection>
  events,        \* Vec<Event>
  panicked,      \* an expect() failed
  emitted,       \* per client id, ClientConnected events ever pushed
  pc,            \* "idle", or "process_events" inside update's receive loop
  last           \* the latest operation: the datagram's source address, the
                 \* result returned, the branches taken (the log lines) and
                 \* the send_to calls made, per destination

vars == <<max_clients, current_time, clients, connecting, events, panicked,
          emitted, pc, last>>

\* ---------------------------------------------- authentication protocol
\* P::from_payload: builds the handshake state from a first-contact payload;
\* fails on anything that is not a connection request.
from_payload_ok(payload) == payload.kind = "req"

from_payload(payload) == [id |-> payload.id, authenticated |-> FALSE]

\* protocol.id()
protocol_id(protocol) == protocol.id

\* protocol.is_authenticated()
is_authenticated(protocol) == protocol.authenticated

\* protocol.create_payload(): a handshake in progress has its current step
\* to (re)send.
create_payload(protocol) ==
  IF protocol.authenticated THEN "None" ELSE "challenge"

\* protocol.process_payload(payload): a challenge response completes the
\* handshake, a repeated request is accepted and ignored, anything else is
\* rejected.
protocol_process_payload_ok(protocol, payload) == payload.kind # "bad"

protocol_process_payload(protocol, payload) ==
  IF payload.kind = "resp" THEN [protocol EXCEPT !.authenticated = TRUE]
  ELSE protocol

\* HandleConnection::new(client_id, addr, protocol)
HandleConnection_new(client_id, addr, protocol) ==
  [client_id |-> client_id, addr |-> addr, protocol |-> protocol]

\* ------------------------------------------------------------ map helpers
MapInsert(m, k, v) == [x \in DOMAIN m \cup {k} |-> IF x = k THEN v ELSE m[x]]

MapRemove(m, k) == [x \in DOMAIN m \ {k} |-> m[x]]

EmptyMap == [x \in {} |-> 0]

\* ------------------------------------------------- sessions and channels
\* Connection::new(addr, endpoint, security_service): a session starts with
\* no payload received and no channel.
Connection_new(addr) == [addr |-> addr, received |-> 0, channels |-> EmptyMap]

\* channel_config.new_channel(current_time): an empty channel whose clock
\* reads current_time.
new_channel(time) == [time |-> time, outbox |-> <<>>, inbox |-> <<>>]

\* connection.add_channel(channel_id, channel)
add_channel(connection, channel_id, channel) ==
  [connection EXCEPT !.channels = MapInsert(@, channel_id, channel)]

\* connection.update_channels_current_time(current_time)
update_channels_current_time(connection, time) ==
  [connection EXCEPT
     !.channels = [c \in DOMAIN @ |-> [@[c] EXCEPT !.time = time]]]

\* connection.send_message(channel_id, message): the message joins the
\* channel's outbound queue.
send_message(connection, channel_id, message) ==
  [connection EXCEPT !.channels[channel_id].outbox = Append(@, message)]

\* connection.receive_all_messages_from_channel(channel_id): the messages
\* returned, and the session after the call.
channel_messages(connection, channel_id) ==
  connection.channels[channel_id].inbox

receive_all_messages_from_channel(connection, channel_id) ==
  [connection EXCEPT !.channels[channel_id].inbox = <<>>]

\* connection.process_payload(payload) of a session: a payload that carries
\* a message buffers it on its channel, any other payload is counted.
Connection_process_payload(connection, payload) ==
  IF payload.kind = "data"
  THEN [connection EXCEPT
          !.channels[payload.channel].inbox = Append(@, payload.message)]
  ELSE [connection EXCEPT !.received = @ + 1]

Event_ClientConnected(id) == [type |-> "ClientConnected", id |-> id]

\* The entries values_mut().find(|c| c.addr == *addr) can return: HashMap
\* iteration order is unspecified, so any matching entry.
\* A session lookup that never finds the session.
find_client_by_addr_none(st, addr) == {}

find_client_by_addr(st, addr) ==
  {id \in DOMAIN st.clients : st.clients[id].addr = addr}

\* A handshake lookup that never finds the handshake.
find_connection_by_addr_none(st, addr) == {}

find_connection_by_addr(st, addr) ==
  {id \in DOMAIN st.connecting : st.connecting[id].addr = addr}

\* The capacity test with > for >=.
server_is_full_gt(st) == Cardinality(DOMAIN st.clients) > st.max_clients

\* self.clients.len() >= self.config.max_clients
server_is_full(st) == Cardinality(DOMAIN st.clients) >= st.max_clients

\* ------------------------------------------------- process_payload_from
\* An outcome of process_payload_from: the new state, the Result returned
\* and the branch taken.
Outcome(st, res, route) == [st |-> st, res |-> res, route |-> {route}]

\* Some(client) => { client.process_payload(payload); return Ok(()) }
deliver_to_client(st, payload, addr) ==
  { Outcome([st EXCEPT !.clients[id] = Connection_process_payload(@, payload)],
            "Ok", "client")
    : id \in find_client_by_addr(st, addr) }

\* The server is full: debug!("Connection Denied ..."); return Ok(())
deny_full(st) == { Outcome(st, "Ok", "full") }

\* The handshake routing that drops a handshake whose protocol rejected the
\* payload.
route_handshake_drop_on_err(st, payload, addr) ==
  IF find_connection_by_addr(st, addr) # {}
  THEN { IF protocol_process_payload_ok(st.connecting[id].protocol, payload)
         THEN Outcome([st EXCEPT !.connecting[id].protocol =
                          protocol_process_payload(@, payload)],
                      "Ok", "connecting")
         ELSE Outcome([st EXCEPT !.connecting = MapRemove(@, id)],
                      "Ok", "connecting_err")
         : id \in find_connection_by_addr(st, addr) }
  ELSE IF ~from_payload_ok(payload)
  THEN { Outcome(st, "Err", "from_payload_err") }
  ELSE LET protocol == from_payload(payload)
           id == protocol_id(protocol)
           new_connection ==
             HandleConnection_new(protocol_id(protocol), addr, protocol)
       IN { Outcome([st EXCEPT !.connecting = MapInsert(@, id, new_connection)],
                    "Ok", "new") }

\* The handshake routing that stores the new handshake under a key other
\* than its client_id field.
route_handshake_other_key(st, payload, addr) ==
  IF find_connection_by_addr(st, addr) # {}
  THEN { IF protocol_process_payload_ok(st.connecting[id].protocol, payload)
         THEN Outcome([st EXCEPT !.connecting[id].protocol =
                          protocol_process_payload(@, payload)],
                      "Ok", "connecting")
         ELSE Outcome(st, "Ok", "connecting_err")
         : id \in find_connection_by_addr(st, addr) }
  ELSE IF ~from_payload_ok(payload)
  THEN { Outcome(st, "Err", "from_payload_err") }
  ELSE LET protocol == from_payload(payload)
           id == protocol_id(protocol)
           other == CHOOSE k \in ClientId : k # id
           new_connection ==
             HandleConnection_new(other, addr, protocol)
       IN { Outcome([st EXCEPT !.connecting = MapInsert(@, id, new_connection)],
                    "Ok", "new") }

\* match self.find_connection_by_addr(addr): an existing handshake gets the
\* payload (an error of its protocol is only logged); otherwise
\* P::from_payload(payload)? builds a protocol, whose id keys the new
\* HandleConnection inserted in connecting.
route_handshake(st, payload, addr) ==
  IF find_connection_by_addr(st, addr) # {}
  THEN { IF protocol_process_payload_ok(st.connecting[id].protocol, payload)
         THEN Outcome([st EXCEPT !.connecting[id].protocol =
                          protocol_process_payload(@, payload)],
                      "Ok", "connecting")
         ELSE Outcome(st, "Ok", "connecting_err")
         : id \in find_connection_by_addr(st, addr) }
  ELSE IF ~from_payload_ok(payload)
  THEN { Outcome(st, "Err", "from_payload_err") }
  ELSE LET protocol == from_payload(payload)
           id == protocol_id(protocol)
           new_connection ==
             HandleConnection_new(protocol_id(protocol), addr, protocol)
       IN { Outcome([st EXCEPT !.connecting = MapInsert(@, id, new_connection)],
                    "Ok", "new") }

\* The routing with the capacity test made before the session lookup.
process_payload_from_full_first(st, payload, addr) ==
  IF server_is_full(st)
  THEN deny_full(st)
  ELSE IF find_client_by_addr(st, addr) # {}
  THEN deliver_to_client(st, payload, addr)
  ELSE route_handshake(st, payload, addr)

\* The routing with the capacity test made only for an unknown address.
process_payload_from_handshake_first(st, payload, addr) ==
  IF find_client_by_addr(st, addr) # {}
  THEN deliver_to_client(st, payload, addr)
  ELSE IF find_connection_by_addr(st, addr) # {}
  THEN route_handshake(st, payload, addr)
  ELSE IF server_is_full(st)
  THEN deny_full(st)
  ELSE route_handshake(st, payload, addr)

\* The set of outcomes of process_payload_from on server state st.
process_payload_from(st, payload, addr) ==
  IF find_client_by_addr(st, addr) # {}
  THEN deliver_to_client(st, payload, addr)
  ELSE IF server_is_full(st)
  THEN deny_full(st)
  ELSE route_handshake(st, payload, addr)

\* --------------------------------------------------------- process_events
\* One iteration of the receive loop whose recv_from yielded a datagram: it
\* is routed, and `if let Err(e) = self.process_payload_from(..)` only logs
\* the error, so the loop goes on to the next recv_from whatever the result.
\* A receive loop that propagates the routing error with `?`.
process_events_next_stop(res) ==
  IF res = "Err" THEN "idle" ELSE "process_events"

process_events_next(res) == "process_events"

\* The end of the receive loop: WouldBlock returns Ok(()), any other socket
\* error returns Err(RenetError::IOError(e)).
process_events_result(end) == IF end = "WouldBlock" THEN "Ok" ELSE "Err"

\* ---------------------------------------------- update_pending_connections
Perms(S) ==
  {f \in [1..Cardinality(S) -> S] : \A i, j \in DOMAIN f : f[i] = f[j] => i = j}

\* A first pass that collects every pending handshake.
connected_orders_all(st) == Perms(DOMAIN st.connecting)

\* First pass: the keys of the authenticated handshakes, in the order the
\* map iteration met them (any order).
connected_orders(st) ==
  Perms({k \in DOMAIN st.connecting :
           is_authenticated(st.connecting[k].protocol)})

\* First pass, else branch: one send_to per handshake that is not
\* authenticated and has a payload to send, to that handshake's address.
handshake_sends(st) ==
  [a \in SocketAddr |->
     Cardinality({k \in DOMAIN st.connecting :
                    /\ ~is_authenticated(st.connecting[k].protocol)
                    /\ create_payload(st.connecting[k].protocol) # "None"
                    /\ st.connecting[k].addr = a})]

\* for (channel_id, channel_config) in self.channels_config.iter():
\* every configured channel is built with self.current_time and added.
RECURSIVE add_channels(_, _, _)
add_channels(connection, ids, time) ==
  IF ids = {} THEN connection
  ELSE LET channel_id == CHOOSE c \in ids : TRUE
       IN add_channels(add_channel(connection, channel_id, new_channel(time)),
                       ids \ {channel_id}, time)

\* A second pass that inserts the session without pushing the event.
promote_no_event(st, client_id) ==
  IF client_id \notin DOMAIN st.connecting
  THEN [st EXCEPT !.panicked = TRUE]
  ELSE LET handle_connection == st.connecting[client_id]
           removed == [st EXCEPT !.connecting = MapRemove(@, client_id)]
       IN IF server_is_full(removed)
          THEN [removed EXCEPT !.branches = @ \cup {"denied"}]
          ELSE [removed EXCEPT
                  !.branches = @ \cup {"promoted"},
                  !.clients = MapInsert(@, handle_connection.client_id,
                                 add_channels(
                                   Connection_new(handle_connection.addr),
                                   ChannelId, st.current_time))]

\* Second pass, one iteration: remove the handshake, drop it if the server
\* is full, else build the session, push the event and insert the session.
promote(st, client_id) ==
  IF client_id \notin DOMAIN st.connecting
  THEN [st EXCEPT !.panicked = TRUE]
  ELSE LET handle_connection == st.connecting[client_id]
           removed == [st EXCEPT !.connecting = MapRemove(@, client_id)]
       IN IF server_is_full(removed)
          THEN [removed EXCEPT !.branches = @ \cup {"denied"}]
          ELSE [removed EXCEPT
                  !.branches = @ \cup {"promoted"},
                  !.events = Append(@,
                     Event_ClientConnected(handle_connection.client_id)),
                  !.emitted[handle_connection.client_id] = @ + 1,
                  !.clients = MapInsert(@, handle_connection.client_id,
                                 add_channels(
                                   Connection_new(handle_connection.addr),
                                   ChannelId, st.current_time))]

RECURSIVE promote_all(_, _, _)
promote_all(st, connected_clients, i) ==
  IF i > Len(connected_clients) \/ st.panicked
  THEN st
  ELSE promote_all(promote(st, connected_clients[i]), connected_clients, i + 1)

\* First pass, if let Err(e) = self.socket.send_to(..): the error line is
\* logged when a send_to to an address of send_fails was made.
send_errors(st) ==
  IF \E a \in st.send_fails : handshake_sends(st)[a] > 0
  THEN {"send_failed"} ELSE {}

\* An update_pending_connections that returns at the first send_to error.
update_pending_connections_return(st) ==
  IF send_errors(st) # {}
  THEN { [st EXCEPT !.sent = handshake_sends(st),
                    !.branches = send_errors(st)] }
  ELSE { promote_all([st EXCEPT !.sent = handshake_sends(st)],
                     [i \in DOMAIN order |->
                        st.connecting[order[i]].client_id], 1)
         : order \in connected_orders(st) }

update_pending_connections(st) ==
  { promote_all([st EXCEPT !.sent = handshake_sends(st),
                           !.branches = send_errors(st)],
                [i \in DOMAIN order |-> st.connecting[order[i]].client_id], 1)
    : order \in connected_orders(st) }

\* ------------------------------------------------------------------ update
\* An update that returns as soon as process_events reports an error.
update_after_process_events_return(st, res) ==
  IF res = "Err" THEN {st} ELSE update_pending_connections(st)

\* if let Err(e) = self.process_events(current_time) { error!(..) }
\* self.update_pending_connections(): whatever process_events returned.
update_after_process_events(st, res) == update_pending_connections(st)

\* --------------------------------------------------------------- messages
\* for connection in self.clients.values_mut():
\*   connection.send_message(channel_id, message.clone())
send_message_to_all_clients(st, channel_id, message) ==
  [st EXCEPT !.clients =
     [id \in DOMAIN @ |-> send_message(@[id], channel_id, message)]]

\* A send that indexes the session map and panics on an unknown client id.
send_message_to_client_index(st, client_id, channel_id, message) ==
  IF client_id \in DOMAIN st.clients
  THEN [st EXCEPT !.clients[client_id] = send_message(@, channel_id, message)]
  ELSE [st EXCEPT !.panicked = TRUE]

\* if let Some(connection) = self.clients.get_mut(&client_id)
\*   { connection.send_message(channel_id, message) }
send_message_to_client(st, client_id, channel_id, message) ==
  IF client_id \in DOMAIN st.clients
  THEN [st EXCEPT !.clients[client_id] = send_message(@, channel_id, message)]
  ELSE st

\* The value returned with the state it leaves.
Returned_messages(st, res, msgs) == [st |-> st, res |-> res, msgs |-> msgs]

\* Some(client.receive_all_messages_from_channel(channel_id)), or None for
\* an unknown client id.
get_messages_from_client(st, client_id, channel_id) ==
  IF client_id \in DOMAIN st.clients
  THEN Returned_messages(
         [st EXCEPT !.clients[client_id] =
            receive_all_messages_from_channel(@, channel_id)],
         "Some",
         MapInsert(EmptyMap, client_id,
                   channel_messages(st.clients[client_id], channel_id)))
  ELSE Returned_messages(st, "None", EmptyMap)

\* A read of a channel that also lists the sessions with nothing buffered.
get_messages_from_channel_keep_empty(st, channel_id) ==
  Returned_messages(
    [st EXCEPT !.clients =
       [id \in DOMAIN @ |->
          receive_all_messages_from_channel(@[id], channel_id)]],
    "Ok",
    [id \in DOMAIN st.clients |->
       channel_messages(st.clients[id], channel_id)])

\* Every session's channel is drained; the non-empty batches are returned
\* with their client ids (a Vec in map iteration order, kept here as the
\* map from client id to batch).
get_messages_from_channel(st, channel_id) ==
  Returned_messages(
    [st EXCEPT !.clients =
       [id \in DOMAIN @ |->
          receive_all_messages_from_channel(@[id], channel_id)]],
    "Ok",
    [id \in {c \in DOMAIN st.clients :
               channel_messages(st.clients[c], channel_id) # <<>>} |->
       channel_messages(st.clients[id], channel_id)])

\* ------------------------------------------------------------------- state
NoneSent == [a \in SocketAddr |-> 0]

\* The server's fields, with the send_to calls and the log lines of the
\* operation in progress and the addresses to which the socket fails to
\* send during it.
ServerState ==
  [max_clients |-> max_clients, current_time |-> current_time,
   clients |-> clients, connecting |-> connecting, events |-> events, panicked |-> panicked,
   emitted |-> emitted, sent |-> NoneSent, branches |-> {},
   send_fails |-> {}]

Install(st) ==
  /\ clients' = st.clients
  /\ connecting' = st.connecting
  /\ events' = st.events
  /\ panicked' = st.panicked
  /\ emitted' = st.emitted
  /\ max_clients' = st.max_clients
  /\ current_time' = st.current_time

NoEvent == [type |-> "None", id |-> 0]

NoAddr == "-"

\* The record of the latest operation; now, arg and msgs are filled in by
\* the operations that take a time or a message, or return messages.
Op(op, addr, res, route, ret, snt) ==
  [op |-> op, addr |-> addr, res |-> res, route |-> route, ret |-> ret,
   sent |-> snt, now |-> ConstructionTime, arg |-> <<>>, msgs |-> EmptyMap]

\* Server::new: empty maps, empty event queue.
Init ==
  /\ max_clients \in MaxClients
  /\ current_time = ConstructionTime
  /\ clients = EmptyMap
  /\ connecting = EmptyMap
  /\ events = <<>>
  /\ panicked = FALSE
  /\ emitted = [id \in ClientId |-> 0]
  /\ pc = "idle"
  /\ last = Op("new", NoAddr, "Ok", {}, NoEvent, NoneSent)

\* The messages buffered in the channels of all sessions.
Buffered(m) ==
  Cardinality({t \in (DOMAIN m) \X ChannelId \X (1..(MaxBuffered + 1)) :
                 t[3] <= Len(m[t[1]].channels[t[2]].inbox)})
  + Cardinality({t \in (DOMAIN m) \X ChannelId \X (1..(MaxBuffered + 1)) :
                   t[3] <= Len(m[t[1]].channels[t[2]].outbox)})

\* The bounds of the exploration: the payloads handed to a session, the
\* ClientConnected events per client id and the events not yet polled stay
\* small.
WithinBounds ==
  /\ \A id \in DOMAIN clients' : clients'[id].received <= MaxReceived
  /\ Buffered(clients') <= MaxBuffered
  /\ \A id \in ClientId : emitted'[id] <= MaxEmitted
  /\ Len(events') <= MaxEvents

\* pub fn process_payload_from(payload, addr), called by the application.
ProcessPayloadFrom(payload, addr) ==
  /\ pc = "idle"
  /\ ~panicked
  /\ \E o \in process_payload_from(ServerState, payload, addr) :
        /\ Install(o.st)
        /\ last' = Op("process_payload_from", addr, o.res, o.route, NoEvent, NoneSent)
  /\ WithinBounds
  /\ UNCHANGED pc

\* An update that also stores its argument in the server's current_time.
UpdateBegin_store(now) ==
  /\ pc = "idle"
  /\ ~panicked
  /\ clients' = [id \in DOMAIN clients |->
                   update_channels_current_time(clients[id], now)]
  /\ current_time' = now
  /\ pc' = "process_events"
  /\ last' = [Op("update_begin", NoAddr, "Ok", {}, NoEvent, NoneSent)
               EXCEPT !.now = now]
  /\ UNCHANGED <<max_clients, connecting, events, panicked, emitted>>

\* pub fn update(current_time) is entered: process_events sets the clock of
\* every session's channels to its argument and starts its receive loop.
UpdateBegin(now) ==
  /\ pc = "idle"
  /\ ~panicked
  /\ clients' = [id \in DOMAIN clients |->
                   update_channels_current_time(clients[id], now)]
  /\ pc' = "process_events"
  /\ last' = [Op("update_begin", NoAddr, "Ok", {}, NoEvent, NoneSent)
               EXCEPT !.now = now]
  /\ UNCHANGED <<max_clients, current_time, connecting, events, panicked,
                 emitted>>

\* The receive loop of process_events: recv_from yields a datagram, which is
\* routed by process_payload_from.
UpdateRecv(payload, addr) ==
  /\ pc = "process_events"
  /\ \E o \in process_payload_from(ServerState, payload, addr) :
        /\ Install(o.st)
        /\ last' = Op("update_recv", addr, o.res, o.route, NoEvent, NoneSent)
        /\ pc' = process_events_next(o.res)
  /\ WithinBounds

\* recv_from reports WouldBlock or another socket error: process_events
\* returns, update logs an error, update_pending_connections runs, with
\* send_to failing for the addresses of send_fails, and update returns.
UpdateEnd(end, send_fails) ==
  /\ pc = "process_events"
  /\ \E u \in update_after_process_events(
               [ServerState EXCEPT !.send_fails = send_fails],
               process_events_result(end)) :
        /\ Install(u)
        /\ last' = Op("update", NoAddr, process_events_result(end), u.branches,
                      NoEvent, u.sent)
  /\ WithinBounds
  /\ pc' = "idle"

\* A get_event that takes the oldest event.
GetEvent_fifo ==
  /\ pc = "idle"
  /\ ~panicked
  /\ IF events = <<>>
     THEN /\ events' = events
          /\ last' = Op("get_event", NoAddr, "None", {}, NoEvent, NoneSent)
     ELSE /\ events' = Tail(events)
          /\ last' = Op("get_event", NoAddr, "Some", {}, Head(events),
                        NoneSent)
  /\ UNCHANGED <<max_clients, current_time, clients, connecting, panicked,
                 emitted, pc>>

\* pub fn get_event(): self.events.pop()
GetEvent ==
  /\ pc = "idle"
  /\ ~panicked
  /\ IF events = <<>>
     THEN /\ events' = events
          /\ last' = Op("get_event", NoAddr, "None", {}, NoEvent, NoneSent)
     ELSE /\ events' = SubSeq(events, 1, Len(events) - 1)
          /\ last' = Op("get_event", NoAddr, "Some", {}, events[Len(events)],
                        NoneSent)
  /\ UNCHANGED <<max_clients, current_time, clients, connecting, panicked,
                 emitted, pc>>

\* pub fn send_message_to_all_clients(channel_id, message)
SendMessageToAllClients(channel_id, message) ==
  /\ pc = "idle"
  /\ ~panicked
  /\ Install(send_message_to_all_clients(ServerState, channel_id, message))
  /\ last' = [Op("send_message_to_all_clients", NoAddr, "Ok", {}, NoEvent,
                  NoneSent)
               EXCEPT !.arg = <<0, channel_id, message>>]
  /\ WithinBounds
  /\ UNCHANGED pc

\* pub fn send_message_to_client(client_id, channel_id, message)
SendMessageToClient(client_id, channel_id, message) ==
  /\ pc = "idle"
  /\ ~panicked
  /\ Install(send_message_to_client(ServerState, client_id, channel_id,
                                    message))
  /\ last' = [Op("send_message_to_client", NoAddr, "Ok", {}, NoEvent,
                  NoneSent)
               EXCEPT !.arg = <<client_id, channel_id, message>>]
  /\ WithinBounds
  /\ UNCHANGED pc

\* pub fn get_messages_from_client(client_id, channel_id)
GetMessagesFromClient(client_id, channel_id) ==
  /\ pc = "idle"
  /\ ~panicked
  /\ LET r == get_messages_from_client(ServerState, client_id, channel_id)
     IN /\ Install(r.st)
        /\ last' = [Op("get_messages_from_client", NoAddr, r.res, {}, NoEvent,
                       NoneSent)
                    EXCEPT !.arg = <<client_id, channel_id>>,
                           !.msgs = r.msgs]
  /\ UNCHANGED pc

\* pub fn get_messages_from_channel(channel_id)
GetMessagesFromChannel(channel_id) ==
  /\ pc = "idle"
  /\ ~panicked
  /\ LET r == get_messages_from_channel(ServerState, channel_id)
     IN /\ Install(r.st)
        /\ last' = [Op("get_messages_from_channel", NoAddr, r.res, {}, NoEvent,
                       NoneSent)
                    EXCEPT !.arg = <<0, channel_id>>, !.msgs = r.msgs]
  /\ UNCHANGED pc

\* The handshake, promotion and event behaviour: the Instant handed to
\* update plays no part in it and is held at the Instant of construction.
Next ==
  \/ \E payload \in Payload, addr \in SocketAddr :
        ProcessPayloadFrom(payload, addr)
  \/ UpdateBegin(ConstructionTime)
  \/ \E payload \in Payload, addr \in SocketAddr : UpdateRecv(payload, addr)
  \/ \E end \in {"WouldBlock", "IoError"},
        send_fails \in {{}} \cup {{a} : a \in SocketAddr} :
        UpdateEnd(end, send_fails)
  \/ GetEvent

Spec == Init /\ [][Next]_vars

\* The peers and the payloads of the specifications with message traffic,
\* which start with room for two sessions.
PeerAddr == {"a", "b"}
HandshakePayload ==
  [kind : {"req"}, id : ClientId] \cup [kind : {"resp"}, id : {0}]
InitMessages == Init /\ max_clients = 2

\* Spec with the application's sends.
NextSend ==
  \/ \E payload \in HandshakePayload, addr \in PeerAddr :
        ProcessPayloadFrom(payload, addr)
  \/ UpdateBegin(ConstructionTime)
  \/ \E payload \in HandshakePayload, addr \in PeerAddr :
        UpdateRecv(payload, addr)
  \/ \E end \in {"WouldBlock", "IoError"},
        send_fails \in {{}} \cup {{a} : a \in SocketAddr} :
        UpdateEnd(end, send_fails)
  \/ GetEvent
  \/ \E channel_id \in ChannelId, message \in Message :
        SendMessageToAllClients(channel_id, message)
  \/ \E client_id \in ClientId, channel_id \in ChannelId, message \in Message :
        SendMessageToClient(client_id, channel_id, message)

SpecSend == InitMessages /\ [][NextSend]_vars

\* Spec with payloads that carry messages and the application's reads.
NextReceive ==
  \/ \E payload \in HandshakePayload \cup DataPayload, addr \in PeerAddr :
        ProcessPayloadFrom(payload, addr)
  \/ UpdateBegin(ConstructionTime)
  \/ \E payload \in HandshakePayload \cup DataPayload, addr \in PeerAddr :
        UpdateRecv(payload, addr)
  \/ \E end \in {"WouldBlock", "IoError"},
        send_fails \in {{}} \cup {{a} : a \in SocketAddr} :
        UpdateEnd(end, send_fails)
  \/ GetEvent
  \/ \E client_id \in ClientId, channel_id \in ChannelId :
        GetMessagesFromClient(client_id, channel_id)
  \/ \E channel_id \in ChannelId : GetMessagesFromChannel(channel_id)

SpecReceive == InitMessages /\ [][NextReceive]_vars

\* The same as Spec with update called at later Instants.
NextTime ==
  \/ \E payload \in Payload, addr \in SocketAddr :
        ProcessPayloadFrom(payload, addr)
  \/ \E now \in Time : UpdateBegin(now)
  \/ \E payload \in Payload, addr \in SocketAddr : UpdateRecv(payload, addr)
  \/ \E end \in {"WouldBlock", "IoError"},
        send_fails \in {{}} \cup {{a} : a \in SocketAddr} :
        UpdateEnd(end, send_fails)
  \/ GetEvent

SpecTime == Init /\ [][NextTime]_vars

\* A datagram (payload, addr) is routed, by the application's call or by the
\* receive loop of update.
Routed(payload, addr) ==
  /\ last'.op \in {"process_payload_from", "update_recv"}
  /\ last'.addr = addr
  /\ ProcessPayloadFrom(payload, addr) \/ UpdateRecv(payload, addr)

SessionAt(addr) == \E id \in DOMAIN clients : clients[id].addr = addr

PendingAt(addr) == \E id \in DOMAIN connecting : connecting[id].addr = addr

Full == Cardinality(DOMAIN clients) >= max_clients

TypeOK ==
  /\ max_clients \in MaxClients
  /\ current_time \in {ConstructionTime} \cup Time
  /\ DOMAIN clients \subseteq ClientId
  /\ \A id \in DOMAIN clients : DOMAIN clients[id].channels = ChannelId
  /\ DOMAIN connecting \subseteq ClientId
  /\ \A id \in DOMAIN clients : clients[id].addr \in SocketAddr
  /\ \A id \in DOMAIN connecting : connecting[id].addr \in SocketAddr
  /\ panicked \in BOOLEAN
  /\ pc \in {"idle", "process_events"}

\* ------------------------------------------------------------------ claims

C2_AddressUnique ==
  /\ \A i, j \in DOMAIN clients : clients[i].addr = clients[j].addr => i = j
  /\ \A i, j \in DOMAIN connecting :
        connecting[i].addr = connecting[j].addr => i = j
  /\ \A i \in DOMAIN clients, j \in DOMAIN connecting :
        clients[i].addr # connecting[j].addr

\* A handshake has just been created while a session and another handshake
\* exist.
C2_Witness ==
  /\ "new" \in last.route
  /\ DOMAIN clients # {}
  /\ Cardinality(DOMAIN connecting) = 2

\* C3: no client id is a key of the session map and of the pending-handshake
\* map at once.
C3_IdDisjoint == DOMAIN clients \cap DOMAIN connecting = {}

Authenticated == {k \in DOMAIN connecting : connecting[k].protocol.authenticated}

\* The step in which update leaves its receive loop, runs
\* update_pending_connections and returns.
UpdateReturns == pc = "process_events" /\ pc' = "idle"

\* C4: once a handshake is authenticated, the update that handles it pushes
\* one ClientConnected event for its client id and makes it a session, no
\* second event for that id is ever pushed, and once promoted the id never
\* becomes a key of the pending-handshake map again.
C4_ExactlyOncePromotion ==
  [][ \A id \in ClientId :
        /\ emitted'[id] <= 1
        /\ (UpdateReturns /\ id \in Authenticated) =>
              /\ emitted'[id] = 1
              /\ id \in DOMAIN clients'
              /\ id \notin DOMAIN connecting'
        /\ (emitted[id] >= 1 /\ id \notin DOMAIN connecting) =>
              id \notin DOMAIN connecting' ]_vars

\* C5: while no session exists, every first-contact datagram from an address
\* that has no handshake yet adds one entry to the pending-handshake map, so
\* that the entries number as many as the addresses that sent one.
C5_OneEntryPerAddress ==
  [][ \A payload \in Payload, addr \in SocketAddr :
        ( /\ payload.kind = "req"
          /\ DOMAIN clients = {}
          /\ ~Full
          /\ ~PendingAt(addr)
          /\ Routed(payload, addr) ) =>
        Cardinality(DOMAIN connecting') = Cardinality(DOMAIN connecting) + 1
    ]_vars

\* C6: a datagram from the address of a pending handshake leaves the key set
\* of the pending-handshake map, and every entry's id and address, as they
\* were; it goes to that entry's protocol or is discarded, never to
\* P::from_payload, and no other entry changes.
C6_OneHandshakePerAddress ==
  [][ \A payload \in Payload, addr \in SocketAddr :
        (PendingAt(addr) /\ Routed(payload, addr)) =>
        /\ DOMAIN connecting' = DOMAIN connecting
        /\ \A k \in DOMAIN connecting :
              /\ connecting'[k].addr = connecting[k].addr
              /\ connecting'[k].client_id = connecting[k].client_id
              /\ connecting[k].addr # addr => connecting'[k] = connecting[k]
              /\ (connecting[k].addr = addr /\ last'.route = {"connecting"}) =>
                    connecting'[k].protocol =
                      protocol_process_payload(connecting[k].protocol, payload)
              /\ (connecting[k].addr = addr /\ last'.route # {"connecting"}) =>
                    connecting'[k] = connecting[k]
        /\ last'.route \in {{"connecting"}, {"connecting_err"}, {"full"}}
    ]_vars

\* A repeated datagram from a handshake's address has just been handed to
\* that handshake, which is still not authenticated.
C6_Witness ==
  /\ last.route = {"connecting"}
  /\ \E k \in DOMAIN connecting :
        /\ connecting[k].addr = last.addr
        /\ ~connecting[k].protocol.authenticated

\* C7: a datagram from a session's address is handed to that session and to
\* nothing else, full or not: the pending-handshake map, the other sessions
\* and the event queue are unchanged and Ok is returned.
C7_SessionFastPath ==
  [][ \A payload \in Payload, addr \in SocketAddr :
        (SessionAt(addr) /\ Routed(payload, addr)) =>
        /\ \E id \in DOMAIN clients :
              /\ clients[id].addr = addr
              /\ clients' = [clients EXCEPT ![id].received = @ + 1]
        /\ connecting' = connecting
        /\ events' = events
        /\ emitted' = emitted
        /\ last'.res = "Ok"
        /\ last'.route = {"client"}
    ]_vars

\* A session has just been handed a datagram while the server is full and a
\* handshake is pending.
C7_Witness ==
  /\ last.route = {"client"}
  /\ max_clients >= 1
  /\ Cardinality(DOMAIN clients) = max_clients
  /\ DOMAIN connecting # {}
  /\ \E id \in DOMAIN clients :
        clients[id].addr = last.addr /\ clients[id].received = 1

\* C8: when the server is full, a datagram from an address that is no
\* session's is discarded: both maps (so every handshake's protocol state)
\* and the event queue are unchanged and Ok is returned.
C8_FullDiscards ==
  [][ \A payload \in Payload, addr \in SocketAddr :
        (Full /\ ~SessionAt(addr) /\ Routed(payload, addr)) =>
        /\ clients' = clients
        /\ connecting' = connecting
        /\ events' = events
        /\ emitted' = emitted
        /\ last'.res = "Ok"
        /\ last'.route = {"full"}
    ]_vars

\* A datagram from the address of a pending handshake has just been
\* discarded because the server is full.
C8_Witness ==
  /\ last.route = {"full"}
  /\ max_clients >= 1
  /\ PendingAt(last.addr)

\* C9: when an update finds more authenticated handshakes than free session
\* slots, it promotes as many as there are free slots (one event and one
\* new session each) and removes every authenticated handshake.
C9_PromotionUnderPressure ==
  [][ ( /\ UpdateReturns
        /\ Cardinality(DOMAIN clients) <= max_clients
        /\ Cardinality(Authenticated) >
             max_clients - Cardinality(DOMAIN clients) ) =>
      /\ Len(events') = Len(events) + max_clients - Cardinality(DOMAIN clients)
      /\ Cardinality(DOMAIN clients') = max_clients
      /\ \A k \in Authenticated : k \notin DOMAIN connecting'
    ]_vars

\* C10: a datagram from an address unknown to both maps, with the server not
\* full, whose payload P::from_payload rejects returns Err and changes
\* neither map nor the event queue; inside update the receive loop goes on.
C10_FromPayloadFailure ==
  [][ \A payload \in Payload, addr \in SocketAddr :
        ( /\ payload.kind # "req"
          /\ ~SessionAt(addr)
          /\ ~PendingAt(addr)
          /\ ~Full
          /\ Routed(payload, addr) ) =>
        /\ last'.res = "Err"
        /\ clients' = clients
        /\ connecting' = connecting
        /\ events' = events
        /\ emitted' = emitted
        /\ pc = "process_events" => pc' = "process_events"
    ]_vars

\* The receive loop of update has just routed a datagram that
\* P::from_payload rejected, and is still receiving.
C10_Witness ==
  /\ last.op = "update_recv"
  /\ last.route = {"from_payload_err"}
  /\ last.res = "Err"
  /\ pc = "process_events"

\* C11: when the protocol of the pending handshake at the datagram's address
\* rejects the payload, Ok is returned, both maps and the event queue stay
\* exactly as they were (the entry keeps its key, id, address and protocol
\* state), so the next datagram from that address finds the same entry.
C11_HandshakePayloadFailure ==
  [][ \A payload \in Payload, addr \in SocketAddr :
        ( /\ payload.kind = "bad"
          /\ PendingAt(addr)
          /\ ~SessionAt(addr)
          /\ ~Full
          /\ Routed(payload, addr) ) =>
        /\ last'.res = "Ok"
        /\ last'.route = {"connecting_err"}
        /\ connecting' = connecting
        /\ clients' = clients
        /\ events' = events
        /\ emitted' = emitted
        /\ \E k \in DOMAIN connecting' :
              connecting'[k].addr = addr /\ connecting'[k].client_id = k
    ]_vars

\* A pending handshake's protocol has just rejected a payload and the
\* handshake is still there, under its id and address.
C11_Witness ==
  /\ last.route = {"connecting_err"}
  /\ last.res = "Ok"
  /\ \E k \in DOMAIN connecting :
        connecting[k].addr = last.addr /\ connecting[k].client_id = k

\* The send_to calls the first pass of update_pending_connections makes for
\* the handshakes pending now: one to the address of each handshake that is
\* not authenticated and has a payload to send.
ExpectedSends ==
  [a \in SocketAddr |->
     Cardinality({k \in DOMAIN connecting :
                    /\ connecting[k].addr = a
                    /\ ~connecting[k].protocol.authenticated
                    /\ create_payload(connecting[k].protocol) # "None"})]

\* C12: the receive loop goes on to the next recv_from after every datagram
\* it routed; when it ends, with WouldBlock or with another socket error,
\* what was routed before stays (handshakes not authenticated and sessions
\* are kept), update_pending_connections runs (handshake payloads are sent,
\* authenticated handshakes leave the pending map), and update returns
\* without panic, so that the next update can start.
C12_IoErrorStopsDrainOnly ==
  [][ /\ (pc = "process_events" /\ last'.op = "update_recv") =>
            pc' = "process_events"
      /\ UpdateReturns =>
            /\ last'.op = "update"
            /\ ~panicked'
            /\ last'.sent = ExpectedSends
            /\ \A k \in Authenticated : k \notin DOMAIN connecting'
            /\ \A k \in DOMAIN connecting \ Authenticated :
                  /\ k \in DOMAIN connecting'
                  /\ connecting'[k] = connecting[k]
            /\ \A id \in DOMAIN clients :
                  /\ id \in DOMAIN clients'
                  /\ id \notin Authenticated => clients'[id] = clients[id]
    ]_vars

\* An update whose receive loop ended with a socket error has returned: it
\* promoted a handshake, sent a payload for another one and can be called
\* again.
C12_Witness ==
  /\ last.op = "update"
  /\ last.res = "Err"
  /\ pc = "idle"
  /\ ~panicked
  /\ "promoted" \in last.route
  /\ \E k \in DOMAIN connecting : last.sent[connecting[k].addr] = 1

IsPrefix(s, t) == Len(s) <= Len(t) /\ SubSeq(t, 1, Len(s)) = s

\* Number of queued ClientConnected events of one client.
Queued(q, id) == Cardinality({i \in 1..Len(q) : q[i].id = id})

\* 1 when the step is a get_event that returns an event of the client.
Returned(id) ==
  IF last'.op = "get_event" /\ last'.res = "Some" /\ last'.ret.id = id
  THEN 1 ELSE 0

\* C13: get_event returns None on an empty queue and otherwise removes and
\* returns the last event of the queue; every other step only appends to
\* the queue, so the event returned is the most recently pushed one not yet
\* returned; per client, the queue grows by the events its promotions push
\* and shrinks by the events get_event returns, so no event is lost or
\* returned twice.
C13_GetEventLifo ==
  [][ /\ last'.op = "get_event" =>
            IF events = <<>>
            THEN /\ last'.res = "None"
                 /\ last'.ret = NoEvent
                 /\ events' = events
            ELSE /\ last'.res = "Some"
                 /\ last'.ret = events[Len(events)]
                 /\ events' = SubSeq(events, 1, Len(events) - 1)
      /\ last'.op # "get_event" => IsPrefix(events, events')
      /\ \A id \in ClientId :
            Queued(events', id) - Queued(events, id) =
              (emitted'[id] - emitted[id]) - Returned(id)
    ]_vars

\* get_event has just returned one of two queued events of different
\* clients; the other one is still queued.
C13_Witness ==
  /\ last.op = "get_event"
  /\ last.res = "Some"
  /\ Len(events) = 1
  /\ events[1].id # last.ret.id

\* The update step in progress has promoted the pending handshake k.
Promoted(k) ==
  /\ k \in DOMAIN clients'
  /\ clients'[k].addr = connecting[k].addr
  /\ clients'[k].received = 0
  /\ k \notin DOMAIN connecting'
  /\ emitted'[k] = emitted[k] + 1
  /\ \E i \in DOMAIN events' : events'[i] = Event_ClientConnected(k)

\* Free session slots at the start of the second pass.
FreeSlots ==
  IF Cardinality(DOMAIN clients) < max_clients
  THEN max_clients - Cardinality(DOMAIN clients) ELSE 0

\* C14: when update returns, every handshake that was authenticated is out
\* of the pending map; it is promoted (a fresh session under its client_id
\* with the handshake's address, one ClientConnected pushed) unless the
\* session map was full when it was handled, so at least as many are
\* promoted as there were free slots, and one is left out only if the
\* session map ends full. A handshake that is not authenticated stays in
\* the pending map unchanged and creates no session and no event.
C14_PromotionBelowMax ==
  [][ UpdateReturns =>
        /\ \A k \in Authenticated :
              /\ k \notin DOMAIN connecting'
              /\ Promoted(k) \/ Cardinality(DOMAIN clients') >= max_clients
        /\ LET n == Cardinality({k \in Authenticated : Promoted(k)})
           IN n = Cardinality(Authenticated) \/ n >= FreeSlots
        /\ \A k \in DOMAIN connecting \ Authenticated :
              /\ k \in DOMAIN connecting'
              /\ connecting'[k] = connecting[k]
              /\ emitted'[k] = emitted[k]
              /\ k \in DOMAIN clients' =>
                    k \in DOMAIN clients /\ clients'[k] = clients[k]
    ]_vars

\* An update has promoted a handshake below the limit, its event is queued,
\* and a handshake that is not authenticated is still pending.
C14_Witness ==
  /\ pc = "idle"
  /\ last.op = "update"
  /\ last.route = {"promoted"}
  /\ \E k \in DOMAIN connecting : ~is_authenticated(connecting[k].protocol)
  /\ \E id \in DOMAIN clients :
        /\ emitted[id] = 1
        /\ \E i \in DOMAIN events : events[i] = Event_ClientConnected(id)
  /\ Cardinality(DOMAIN clients) < max_clients

\* The session after message is enqueued on its channel channel_id: that
\* channel's outbound queue has the message appended and nothing else of
\* the session differs.
Enqueued(before, after, channel_id, message) ==
  /\ after.addr = before.addr
  /\ after.received = before.received
  /\ DOMAIN after.channels = DOMAIN before.channels
  /\ \A c \in DOMAIN before.channels :
        /\ after.channels[c].inbox = before.channels[c].inbox
        /\ after.channels[c].time = before.channels[c].time
        /\ after.channels[c].outbox =
              IF c = channel_id
              THEN before.channels[c].outbox \o <<message>>
              ELSE before.channels[c].outbox

\* C15: send_message_to_client with a client id that is no key of the
\* session map returns without a panic and leaves the session map (so every
\* channel queue), the pending map and the event queue as they were;
\* send_message_to_all_clients appends the message to the outbound queue of
\* the given channel of every session and changes nothing else.
C15_SendMessage ==
  [][ /\ ( /\ last'.op = "send_message_to_client"
           /\ last'.arg[1] \notin DOMAIN clients ) =>
            /\ clients' = clients
            /\ connecting' = connecting
            /\ events' = events
            /\ emitted' = emitted
            /\ ~panicked'
            /\ last'.res = "Ok"
      /\ last'.op = "send_message_to_all_clients" =>
            /\ DOMAIN clients' = DOMAIN clients
            /\ \A id \in DOMAIN clients :
                  Enqueued(clients[id], clients'[id], last'.arg[2],
                           last'.arg[3])
            /\ connecting' = connecting
            /\ events' = events
            /\ emitted' = emitted
            /\ ~panicked'
    ]_vars

\* A send to a client id that is only a pending handshake has returned,
\* while another client's session holds a message sent to all clients.
C15_Witness ==
  /\ last.op = "send_message_to_client"
  /\ last.arg[1] \notin DOMAIN clients
  /\ last.arg[1] \in DOMAIN connecting
  /\ ~panicked
  /\ \E id \in DOMAIN clients, c \in ChannelId :
        clients[id].channels[c].outbox # <<>>

\* C16: the update that returns has called send_to once for each pending
\* handshake that is not authenticated and has a payload, with that
\* handshake's address, and not at all for an authenticated handshake;
\* whether or not a send_to failed, every authenticated handshake has left
\* the pending map and is promoted unless the session map is full.
C16_HandshakeSends ==
  [][ UpdateReturns =>
        /\ \A a \in SocketAddr :
              last'.sent[a] =
                Cardinality({k \in DOMAIN connecting \ Authenticated :
                               /\ connecting[k].addr = a
                               /\ create_payload(connecting[k].protocol)
                                     # "None"})
        /\ \A k \in Authenticated :
              /\ k \notin DOMAIN connecting'
              /\ \/ emitted'[k] = emitted[k] + 1 /\ k \in DOMAIN clients'
                 \/ Cardinality(DOMAIN clients') >= max_clients
    ]_vars

\* An update whose send_to to a handshake in progress failed has made that
\* call and promoted another, authenticated handshake, to whose address it
\* sent nothing.
C16_Witness ==
  /\ pc = "idle"
  /\ last.op = "update"
  /\ last.route = {"send_failed", "promoted"}
  /\ \E k \in DOMAIN connecting : last.sent[connecting[k].addr] = 1
  /\ \E id \in DOMAIN clients :
        emitted[id] = 1 /\ last.sent[clients[id].addr] = 0

OnlyRead(before, after, channel_id) ==
  /\ after.addr = before.addr
  /\ after.received = before.received
  /\ DOMAIN after.channels = DOMAIN before.channels
  /\ \A c \in DOMAIN before.channels :
        /\ after.channels[c].outbox = before.channels[c].outbox
        /\ after.channels[c].time = before.channels[c].time
        /\ c # channel_id =>
              after.channels[c].inbox = before.channels[c].inbox

\* C18: get_messages_from_channel(c) returns a batch for exactly the
\* sessions with a message buffered on c, each batch being that session's
\* buffer of c, and leaves every other channel of every session unchanged;
\* get_messages_from_client(id, c) returns the buffer of c of session id
\* and leaves every other session and channel unchanged.
C18_ChannelReads ==
  [][ /\ last'.op = "get_messages_from_channel" =>
            /\ DOMAIN last'.msgs =
                  {id \in DOMAIN clients :
                     clients[id].channels[last'.arg[2]].inbox # <<>>}
            /\ \A id \in DOMAIN last'.msgs :
                  last'.msgs[id] = clients[id].channels[last'.arg[2]].inbox
            /\ DOMAIN clients' = DOMAIN clients
            /\ \A id \in DOMAIN clients :
                  OnlyRead(clients[id], clients'[id], last'.arg[2])
      /\ last'.op = "get_messages_from_client" =>
            /\ DOMAIN last'.msgs = DOMAIN clients \cap {last'.arg[1]}
            /\ \A id \in DOMAIN last'.msgs :
                  last'.msgs[id] = clients[id].channels[last'.arg[2]].inbox
            /\ DOMAIN clients' = DOMAIN clients
            /\ \A id \in DOMAIN clients :
                  IF id = last'.arg[1]
                  THEN OnlyRead(clients[id], clients'[id], last'.arg[2])
                  ELSE clients'[id] = clients[id]
    ]_vars

\* A read of a channel has returned the batch of the one session that had
\* a message on it; the other session still holds its message of the other
\* channel.
C18_Witness ==
  /\ last.op = "get_messages_from_channel"
  /\ Cardinality(DOMAIN clients) = 2
  /\ \E x \in DOMAIN clients :
        /\ DOMAIN last.msgs = {x}
        /\ last.msgs[x] # <<>>
        /\ \E y \in DOMAIN clients \ {x}, d \in ChannelId \ {last.arg[2]} :
              /\ clients[y].channels[d].inbox # <<>>
              /\ clients[y].channels[d].inbox # last.msgs[x]

\* C19: every pending handshake is stored under its own client_id field, so
\* the ids update_pending_connections collects are distinct keys of the
\* pending map, and the expect on their removal has never failed.
C19_ExpectNeverFails ==
  /\ ~panicked
  /\ \A k \in DOMAIN connecting : connecting[k].client_id = k

\* An update has removed and promoted two authenticated handshakes in one
\* second pass without a panic.
C19_Witness ==
  /\ pc = "idle"
  /\ last.op = "update"
  /\ "promoted" \in last.route
  /\ ~panicked
  /\ Len(events) = 2
  /\ events[1].id # events[2].id
  /\ \A id \in ClientId : emitted[id] = 1
  /\ connecting = EmptyMap

\* C20: the server's current_time is the Instant of construction in every
\* state; entering update(now) sets the clock of every channel of every
\* session to now; the channels of a session promoted when update returns
\* read the Instant of construction.
C20_ConstructionTimestamp ==
  [][ /\ current_time = ConstructionTime
      /\ current_time' = ConstructionTime
      /\ last'.op = "update_begin" =>
            /\ DOMAIN clients' = DOMAIN clients
            /\ \A id \in DOMAIN clients, c \in ChannelId :
                  clients'[id].channels[c].time = last'.now
      /\ UpdateReturns =>
            \A k \in Authenticated :
               (emitted'[k] = emitted[k] + 1) =>
                  \A c \in ChannelId :
                     clients'[k].channels[c].time = ConstructionTime
    ]_vars

\* An update called at a later Instant has promoted a client: the channels
\* of the session that existed before read that Instant, those of the new
\* session the Instant of construction.
C20_Witness ==
  /\ pc = "idle"
  /\ last.op = "update"
  /\ "promoted" \in last.route
  /\ current_time = ConstructionTime
  /\ \E x, y \in DOMAIN clients :
        /\ \A c \in ChannelId : clients[x].channels[c].time = 2
        /\ \A c \in ChannelId : clients[y].channels[c].time = ConstructionTime

====
